---------------------------- MODULE Spec2Model ----------------------------
(***************************************************************************)
(* Green Cloud Repository Scanner: walk_the_repo, scan_repo and            *)
(* summarize_repo_contents of src/app/core/scanner.py, the pydantic data   *)
(* models of src/app/models.py and src/gcrs/models.py, and the             *)
(* /scan/summary endpoint of src/gcrs/api/main.py.                         *)
(*                                                                         *)
(* File and directory names are sequences of one-character strings, so     *)
(* that pathlib's suffix and str.lower() are computed as the library       *)
(* computes them.  A path is the sequence of names below the scan root;    *)
(* the root itself is the empty path.                                      *)
(***************************************************************************)
EXTENDS Integers, Sequences, FiniteSets, TLC

\* ------------------------------------------------------------------ bounds
MaxFiles   == 2   \* files in the initial tree
MaxRuns    == 2   \* operations run one after the other
MaxUnlinks == 1   \* files removed by another process while a scan runs
MaxClock   == 1   \* seconds the wall clock advances between operations

\* ------------------------------------------------------- python's None, ""
None == "<None>"

Truthy(v) == v # None /\ v # ""

\* dict.get(key, None)
DictGet(d, k) == IF k \in DOMAIN d THEN d[k] ELSE None

\* d[k] = v
SetItem(d, k, v) == [x \in (DOMAIN d) \cup {k} |-> IF x = k THEN v ELSE d[x]]

EmptyDict == <<>>

\* -------------------------------------------------- tables of scanner.py
SKIP_DIRS ==
    {".git", "node_modules", ".venv", "venv", "__pycache__", "dist", "build",
     "out", "tmp", ".pytest_cache", ".mypy_cache", ".vscode"}

BINARY_EXTENSIONS ==
    {".jpg", ".jpeg", ".png", ".gif", ".bmp", ".tiff", ".ico", ".webp", ".svg",
     ".zip", ".tar", ".gz", ".bz2", ".rar", ".7z", ".pdf", ".exe", ".dll",
     ".so", ".dylib", ".ttf", ".otf", ".woff", ".woff2", ".mp4", ".mov", ".avi"}

DATA_EXTENSIONS ==
    {".csv", ".jsonl", ".xml", ".tsv", ".parquet", ".sqlite", ".db", ".ndjson"}

LANGUAGE_BY_EXT ==
    (".c" :> "c") @@ (".cpp" :> "cpp") @@ (".cs" :> "csharp") @@
    (".css" :> "css") @@ (".go" :> "go") @@ (".h" :> "c-header") @@
    (".hpp" :> "cpp-header") @@ (".html" :> "html") @@ (".java" :> "java") @@
    (".js" :> "javascript") @@ (".jsx" :> "javascript") @@ (".kt" :> "kotlin") @@
    (".m" :> "objective-c") @@ (".md" :> "markdown") @@
    (".mm" :> "objective-c++") @@ (".php" :> "php") @@ (".py" :> "python") @@
    (".rb" :> "ruby") @@ (".rs" :> "rust") @@ (".sass" :> "sass") @@
    (".scala" :> "scala") @@ (".scss" :> "scss") @@ (".sql" :> "sql") @@
    (".swift" :> "swift") @@ (".ts" :> "typescript") @@
    (".tsx" :> "typescript") @@ (".vb" :> "vb")

\* The explicit entries of the CATEGORY_BY_EXT literal (lines 98-117).
CATEGORY_EXPLICIT ==
    (".yml" :> "config") @@ (".yaml" :> "config") @@ (".json" :> "config") @@
    (".toml" :> "config") @@ (".ini" :> "config") @@ (".cfg" :> "config") @@
    (".conf" :> "config") @@
    (".md" :> "documentation") @@ (".rst" :> "documentation") @@
    (".txt" :> "documentation") @@ (".adoc" :> "documentation") @@
    (".sh" :> "script") @@ (".ps1" :> "script") @@ (".bat" :> "script") @@
    (".cmd" :> "script") @@
    (".tf" :> "infrastructure") @@ (".dockerfile" :> "infrastructure")

\* Mutant of CATEGORY_BY_EXT: the code-derived defaults are merged last, so
\* they win over the explicit entries.
CATEGORY_BY_EXT_CodeLast ==
    [e \in DOMAIN LANGUAGE_BY_EXT |-> "code"]
    @@ (".svg" :> "asset")
    @@ [e \in DATA_EXTENSIONS |-> "data"]
    @@ CATEGORY_EXPLICIT

\* A dict literal keeps the LAST value given for a key; f @@ g keeps f's, so
\* the entries are merged here in the reverse of their order in the source.
CATEGORY_BY_EXT ==
    (".svg" :> "asset")
    @@ [e \in DATA_EXTENSIONS |-> "data"]
    @@ CATEGORY_EXPLICIT
    @@ [e \in DOMAIN LANGUAGE_BY_EXT |-> "code"]

DEPENDENCY_KIND_BY_NAME ==
    ("requirements.txt" :> "python-requirements") @@
    ("pyproject.toml" :> "python-pyproject") @@ ("Pipfile" :> "python-pipenv") @@
    ("Pipfile.lock" :> "python-pipenv-lock") @@
    ("poetry.lock" :> "python-poetry-lock") @@
    ("package.json" :> "node-package") @@ ("package-lock.json" :> "node-lock") @@
    ("pnpm-lock.yaml" :> "node-pnpm-lock") @@ ("yarn.lock" :> "node-yarn-lock") @@
    ("go.mod" :> "go-mod") @@ ("go.sum" :> "go-sum") @@ ("pom.xml" :> "maven-pom") @@
    ("Gemfile" :> "ruby-gemfile") @@ ("Gemfile.lock" :> "ruby-gem-lock") @@
    ("Cargo.toml" :> "rust-cargo") @@ ("Cargo.lock" :> "rust-cargo-lock")

is_binary_ext(ext) == ext \in BINARY_EXTENSIONS

\* ------------------------------------------------------- str and pathlib
UpperChars ==
    <<"A","B","C","D","E","F","G","H","I","J","K","L","M",
      "N","O","P","Q","R","S","T","U","V","W","X","Y","Z">>

LowerChars ==
    <<"a","b","c","d","e","f","g","h","i","j","k","l","m",
      "n","o","p","q","r","s","t","u","v","w","x","y","z">>

LowerChar(c) ==
    IF \E i \in DOMAIN UpperChars : UpperChars[i] = c
    THEN LowerChars[CHOOSE i \in DOMAIN UpperChars : UpperChars[i] = c]
    ELSE c

\* str.lower()
Lower(cs) == [i \in DOMAIN cs |-> LowerChar(cs[i])]

\* The characters of a name as one string.
RECURSIVE Str(_)
Str(cs) == IF cs = <<>> THEN "" ELSE Head(cs) \o Str(Tail(cs))

\* PurePath.suffix: the part of the name from its last dot on, when that dot
\* is neither the first nor the last character of the name; else "".
Suffix(name) ==
    LET dots == {i \in DOMAIN name : name[i] = "."}
        last == CHOOSE i \in dots : \A j \in dots : j <= i
    IN  IF dots # {} /\ 1 < last /\ last < Len(name)
        THEN SubSeq(name, last, Len(name))
        ELSE <<>>

\* PurePath.name
BaseName(p) == p[Len(p)]

\* PurePath.parent
Parent(p) == SubSeq(p, 1, Len(p) - 1)

\* filename.relative_to(repo_root_path).as_posix(): the names below the
\* root joined by "/".
RECURSIVE AsPosix(_)
AsPosix(p) ==
    IF p = <<>> THEN "."
    ELSE IF Len(p) = 1 THEN Str(p[1])
    ELSE Str(p[1]) \o "/" \o AsPosix(Tail(p))

\* ------------------------------------------------------ pydantic models
\* A BaseModel class is its required fields and the defaults of the others.
\* Construction raises ValidationError when a required field is not given
\* and ignores keywords that name no field (pydantic's extra = "ignore").
Construct(cls, kwargs) ==
    [ok  |-> cls.required \subseteq DOMAIN kwargs,
     obj |-> IF cls.required \subseteq DOMAIN kwargs
             THEN [f \in cls.required \cup DOMAIN cls.defaults |->
                     IF f \in DOMAIN kwargs THEN kwargs[f] ELSE cls.defaults[f]]
             ELSE EmptyDict]

\* getattr on a model instance: only declared fields are attributes.
HasAttr(obj, a) == a \in DOMAIN obj

app_FileRecord ==
    [required |-> {"relative_dir", "name", "size_bytes", "is_binary"},
     defaults |-> ("extension" :> None) @@ ("category" :> None) @@
                  ("language" :> None) @@ ("technologies" :> <<>>) @@
                  ("dependency_kind" :> None)]

app_RepositorySummary ==
    [required |-> {"files_by_language", "files_by_category",
                   "files_by_technology", "files_by_dependency",
                   "files_by_extension"},
     defaults |-> ("total_files" :> 0) @@ ("scanned_files" :> 0) @@
                  ("skipped_files" :> 0) @@ ("summary" :> "")]

gcrs_FileRecord ==
    [required |-> {"relative_dir", "name", "size_bytes", "is_binary"},
     defaults |-> ("extension" :> None) @@ ("category" :> None) @@
                  ("language" :> None) @@ ("technologies" :> <<>>) @@
                  ("data_type" :> None) @@ ("dependency_kind" :> None)]

gcrs_RepositorySummary ==
    [required |-> {},
     defaults |-> ("files_by_language" :> EmptyDict) @@
                  ("files_by_category" :> EmptyDict) @@
                  ("files_by_technology" :> EmptyDict) @@
                  ("files_by_dependency" :> EmptyDict) @@
                  ("files_by_extension" :> EmptyDict) @@
                  ("binary_files_by_extension" :> EmptyDict) @@
                  ("files_without_extension" :> 0) @@
                  ("files_with_extension" :> 0) @@
                  ("data_files_by_extension" :> EmptyDict) @@
                  ("total_files" :> 0) @@ ("scanned_files" :> 0) @@
                  ("skipped_files" :> 0)]

\* The models module the scanner is bound to.  scanner.py imports its
\* models from app.models (line 8), whose RepositorySummary requires the five
\* files_by_* fields; gcrs.api.main drives the same scanner as
\* gcrs.core.scanner beside gcrs.models (gcrs/api/main.py lines 9-11), whose
\* RepositorySummary defaults every field.  Neither class has the attributes
\* language_files, category_files or file_extensions that scan_repo uses.
Packages == {"app", "gcrs"}

FileRecord(pkg) == IF pkg = "app" THEN app_FileRecord ELSE gcrs_FileRecord

RepositorySummary(pkg) ==
    IF pkg = "app" THEN app_RepositorySummary ELSE gcrs_RepositorySummary

SummaryResponse(pkg) ==
    [required |-> {"status", "repo_root"},
     defaults |-> ("summary" :> None) @@ ("files_scanned" :> None) @@
                  ("files_skipped" :> None) @@ ("error" :> None)]

\* The fields of RepositorySummary that hold a dict; the others hold an int.
DictFields ==
    {"files_by_language", "files_by_category", "files_by_technology",
     "files_by_dependency", "files_by_extension",
     "binary_files_by_extension", "data_files_by_extension"}

RECURSIVE DigitsLen(_)
DigitsLen(n) == IF n < 10 THEN 1 ELSE 1 + DigitsLen(n \div 10)

RECURSIVE SumOver(_, _)
SumOver(S, w) ==
    IF S = {} THEN 0
    ELSE LET x == CHOOSE y \in S : TRUE IN w[x] + SumOver(S \ {x}, w)

\* Length of a dict of ints as model_dump_json(indent=2) prints it inside
\* the top-level object: "{}" when empty, else one line per key, indented
\* by four spaces, between "{" and "  }".
JsonDictLen(d) ==
    IF DOMAIN d = {} THEN 2
    ELSE 2 + SumOver(DOMAIN d, [k \in DOMAIN d |-> 4 + Len(k) + 4 + DigitsLen(d[k]) + 1])
           + (Cardinality(DOMAIN d) - 1) + 3

\* Length in bytes of summary.model_dump_json(indent=2): "{", one line per
\* field indented by two spaces and separated by commas, "}".
JsonLen(obj) ==
    2 + SumOver(DOMAIN obj,
                [a \in DOMAIN obj |->
                    2 + Len(a) + 4
                    + (IF a \in DictFields THEN JsonDictLen(obj[a])
                       ELSE DigitsLen(obj[a]))
                    + 1])
      + (Cardinality(DOMAIN obj) - 1) + 1

\* ------------------------------------------------------------ the names
nMakefile     == <<"M","a","k","e","f","i","l","e">>
nPipfile      == <<"P","i","p","f","i","l","e">>
nDotEnv       == <<".","e","n","v">>
nAppPy        == <<"a","p","p",".","p","y">>
nXPY          == <<"X",".","P","Y">>
nAPy          == <<"a",".","p","y">>
nBPng         == <<"b",".","p","n","g">>
nReadmeMd     == <<"R","E","A","D","M","E",".","m","d">>
nRequirements == <<"r","e","q","u","i","r","e","m","e","n","t","s",".","t","x","t">>
nBPNG         == <<"b",".","P","N","G">>
nCJs          == <<"c",".","j","s">>
nSrc          == <<"s","r","c">>
nLib          == <<"l","i","b">>
nBuild        == <<"b","u","i","l","d">>
nNodeModules  == <<"n","o","d","e","_","m","o","d","u","l","e","s">>
nOutput       == <<"o","u","t","p","u","t">>
nOut          == <<"o","u","t">>
nSummary      == <<"s","u","m","m","a","r","y">>
nRepo         == <<"r","e","p","o">>

\* The files a tree may hold at the start, as paths below the root.
CandidateFiles ==
    { <<nPipfile>>, <<nDotEnv>>, <<nAppPy>>, <<nReadmeMd>>,
      <<nRequirements>>, <<nSrc, nAppPy>>, <<nSrc, nBPNG>>, <<nSrc, nXPY>>,
      <<nNodeModules, nCJs>>, <<nSrc, nBuild, nLib, nMakefile>> }

\* The tree of the concrete scenario: src/a.py (50 bytes), src/b.png (200
\* bytes), node_modules/c.js and README.md (10 bytes), with their sizes.
ScenarioSizes ==
    (<<nSrc, nAPy>> :> 50) @@ (<<nSrc, nBPng>> :> 200) @@
    (<<nNodeModules, nCJs>> :> 30) @@ (<<nReadmeMd>> :> 10)

ScenarioFiles == DOMAIN ScenarioSizes

\* The size a file of the initial tree has.
InitialSize(p) ==
    IF p \in ScenarioFiles THEN ScenarioSizes[p] ELSE Len(BaseName(p))

Root == <<>>

\* The directories above a path, the root included.
Ancestors(p) == {SubSeq(p, 1, n) : n \in 0 .. (Len(p) - 1)}

\* The requests: walk_the_repo alone, scan_repo alone, or POST /scan/summary
\* with an output directory and an output file ("" or None: a generated name).
Requests ==
    { [op |-> "walk", output_dir |-> <<>>, output_file |-> <<>>],
      [op |-> "scan", output_dir |-> <<>>, output_file |-> <<>>] }
    \cup
    { [op |-> "summary", output_dir |-> d, output_file |-> f] :
        d \in {nOutput, nOut}, f \in {<<>>, nSummary} }

\* ------------------------------------------------------------- the state
VARIABLES
    files,        \* the file system: path of each regular file -> its size
    dirs,         \* the file system: paths of the directories
    pkg,          \* the models module the scanner imports
    now,          \* the wall clock, in seconds
    req,          \* the request being served, or served last
    pc,           \* "idle", "begin", "walk", "scan", "write", "dump"
    stack,        \* os.walk: the directories still to list, next first
    pending,      \* walk_the_repo: files listed in the current directory, not yet yielded
    yielded,      \* the paths walk_the_repo has yielded in this run, in order
    file_records, \* scan_repo's file_records
    summary,      \* scan_repo's summary (no attributes before it is constructed)
    exc,          \* the exception that ended this run, or None
    response,     \* the SummaryResponse of this run (no attributes when none)
    runs,         \* the outcome of every finished run, in order
    unlinks,      \* files removed by another process so far
    fs0,          \* the file system when the current run started
    output_file_path, \* the endpoint's output_file_path (the root when none)
    cancel_at     \* paths yielded when a cancel signal was raised in this run, or -1

vars == <<files, dirs, pkg, now, req, pc, stack, pending, yielded,
          file_records, summary, exc, response, runs, unlinks, fs0,
          output_file_path, cancel_at>>

Init ==
    /\ pkg \in Packages
    /\ \E chosen \in {c \in SUBSET CandidateFiles : Cardinality(c) <= MaxFiles}
                      \cup {ScenarioFiles} :
         /\ \E rootExists \in BOOLEAN :
              /\ (~rootExists => chosen = {})
              /\ files = [p \in chosen |-> InitialSize(p)]
              /\ dirs = IF rootExists
                        THEN {Root} \cup UNION {Ancestors(p) : p \in chosen}
                        ELSE {}
    /\ now = 0
    /\ req = [op |-> "none", output_dir |-> <<>>, output_file |-> <<>>]
    /\ pc = "idle"
    /\ stack = <<>>
    /\ pending = {}
    /\ yielded = <<>>
    /\ file_records = <<>>
    /\ summary = EmptyDict
    /\ exc = None
    /\ response = EmptyDict
    /\ runs = <<>>
    /\ unlinks = 0
    /\ fs0 = [files |-> files, dirs |-> dirs]
    /\ output_file_path = Root
    /\ cancel_at = -1

\* ------------------------------------------------------- walk_the_repo
\* The orders in which a directory listing may return a set of entries.
Orderings(S) ==
    {o \in [1 .. Cardinality(S) -> S] : {o[i] : i \in DOMAIN o} = S}

\* Mutant of Prune: the listing is left as it is, nothing is pruned.
Prune_KeepAll(subdirectories) == subdirectories

\* subdirectories[:] = [d for d in subdirectories if d not in SKIP_DIRS]
Prune(subdirectories) ==
    {d \in subdirectories : Str(BaseName(d)) \notin SKIP_DIRS}

\* Mutant of Descend: the directory just listed stays on the stack.
Descend_Revisit(order, stk) == order \o stk

\* os.walk, top down: the directory just listed leaves the stack and its
\* subdirectories are put in front of the directories still to visit.
Descend(order, stk) == order \o Tail(stk)

\* os.walk lists the next directory of its stack: the files of the listing
\* become the names walk_the_repo yields, the subdirectories that survive the
\* pruning are visited next, depth first.  A directory that cannot be listed
\* contributes nothing (os.walk's onerror is None).
WalkDir ==
    /\ pc \in {"walk", "scan"}
    /\ pending = {}
    /\ stack # <<>>
    /\ LET dirpath == Head(stack)
           subdirectories == {d \in dirs : d # Root /\ Parent(d) = dirpath}
           filenames == {f \in DOMAIN files : Parent(f) = dirpath}
       IN  IF dirpath \notin dirs
           THEN /\ stack' = Tail(stack)
                /\ pending' = {}
           ELSE /\ \E o \in Orderings(Prune(subdirectories)) :
                     stack' = Descend(o, stack)
                /\ pending' = filenames
    /\ UNCHANGED <<files, dirs, pkg, now, req, pc, yielded, file_records,
                   summary, exc, response, runs, unlinks, fs0, output_file_path>>
    /\ UNCHANGED cancel_at

\* ------------------------------------------------------------ scan_repo
\* Mutant of Classify: the category is looked up in the language table.
Classify_CategoryFromLanguage(filename) ==
    LET name == BaseName(filename)
        extension == Str(Lower(Suffix(name)))
    IN  [relative_dir |-> AsPosix(filename),
         name         |-> Str(name),
         extension    |-> extension,
         category     |-> DictGet(LANGUAGE_BY_EXT, extension),
         language     |-> DictGet(LANGUAGE_BY_EXT, extension),
         is_binary    |-> is_binary_ext(extension)]

\* Lines 272-277: what the loop body derives from the path alone.
Classify(filename) ==
    LET name == BaseName(filename)
        extension == Str(Lower(Suffix(name)))
    IN  [relative_dir |-> AsPosix(filename),
         name         |-> Str(name),
         extension    |-> extension,
         category     |-> DictGet(CATEGORY_BY_EXT, extension),
         language     |-> DictGet(LANGUAGE_BY_EXT, extension),
         is_binary    |-> is_binary_ext(extension)]

\* summary.<attr>[key] = 1: the attribute is read first (AttributeError when
\* the model has no such field), then the item is set.
AssignBucket(obj, attr, key) ==
    [ok  |-> HasAttr(obj, attr),
     obj |-> IF HasAttr(obj, attr)
             THEN [obj EXCEPT ![attr] = SetItem(@, key, 1)]
             ELSE obj]

\* Lines 290-295, in order, stopping at the first statement that raises.
RECURSIVE UpdateHistograms(_, _)
UpdateHistograms(obj, todo) ==
    IF todo = <<>> THEN [summary |-> obj, exc |-> None]
    ELSE LET attr == Head(todo)[1]
             key  == Head(todo)[2]
         IN  IF ~Truthy(key) THEN UpdateHistograms(obj, Tail(todo))
             ELSE LET a == AssignBucket(obj, attr, key)
                  IN  IF a.ok THEN UpdateHistograms(a.obj, Tail(todo))
                      ELSE [summary |-> obj, exc |-> "AttributeError"]

\* The keyword arguments of RepositorySummary(...) at lines 259-269.
SummaryKwargs ==
    ("language_files" :> EmptyDict) @@ ("category_files" :> EmptyDict) @@
    ("technology_files" :> EmptyDict) @@ ("dependency_files" :> EmptyDict) @@
    ("file_extensions" :> EmptyDict) @@ ("total_files" :> 0) @@
    ("scanned_files" :> 0) @@ ("skipped_files" :> 0) @@ ("summary" :> "")

\* Mutant of LoopBody: scanned_files is incremented before the size is read,
\* so a path whose stat() fails is counted without a record.
LoopBody_CountBeforeStat(records, summ, filename) ==
    LET c == Classify(filename)
        counted == [summ EXCEPT !["scanned_files"] = @ + 1]
    IN  IF filename \notin DOMAIN files
        THEN [records |-> records, summary |-> counted, exc |-> "FileNotFoundError"]
        ELSE
        LET made == Construct(FileRecord(pkg),
                              c @@ ("size_bytes" :> files[filename]))
        IN  IF ~made.ok
            THEN [records |-> records, summary |-> counted, exc |-> "ValidationError"]
            ELSE
            LET h == UpdateHistograms(counted,
                        << <<"language_files", c.language>>,
                           <<"category_files", c.category>>,
                           <<"file_extensions", c.extension>> >>)
            IN  [records |-> Append(records, made.obj),
                 summary |-> h.summary,
                 exc     |-> h.exc]

\* One pass of the loop body (lines 272-295) for a yielded path: the records
\* and the summary it leaves, and the exception that ended it, if any.
LoopBody(records, summ, filename) ==
    LET c == Classify(filename)
    IN  IF filename \notin DOMAIN files
        THEN [records |-> records, summary |-> summ, exc |-> "FileNotFoundError"]
        ELSE
        LET made == Construct(FileRecord(pkg),
                              c @@ ("size_bytes" :> files[filename]))
        IN  IF ~made.ok
            THEN [records |-> records, summary |-> summ, exc |-> "ValidationError"]
            ELSE
            LET counted == [summ EXCEPT !["scanned_files"] = @ + 1]
                h == UpdateHistograms(counted,
                        << <<"language_files", c.language>>,
                           <<"category_files", c.category>>,
                           <<"file_extensions", c.extension>> >>)
            IN  [records |-> Append(records, made.obj),
                 summary |-> h.summary,
                 exc     |-> h.exc]

\* A run ends: its outcome is recorded and the process is idle again.
Finish(kind, e, resp) ==
    /\ pc' = "idle"
    /\ exc' = e
    /\ response' = resp
    /\ runs' = Append(runs, [kind     |-> kind,
                             exc      |-> e,
                             records  |-> file_records',
                             summary  |-> summary',
                             response |-> resp])

\* Lines 256-269: the record list, the (lazy) walker and the summary.
ScanBegin ==
    /\ pc = "begin"
    /\ file_records' = <<>>
    /\ stack' = <<Root>>
    /\ pending' = {}
    /\ yielded' = <<>>
    /\ LET made == Construct(RepositorySummary(pkg), SummaryKwargs)
       IN  IF made.ok
           THEN /\ summary' = made.obj
                /\ pc' = "scan"
                /\ UNCHANGED <<exc, response, runs>>
           ELSE /\ summary' = EmptyDict
                /\ Finish("raised", "ValidationError", response)
    /\ UNCHANGED <<files, dirs, pkg, now, req, unlinks, fs0, output_file_path>>
    /\ UNCHANGED cancel_at

\* One iteration of "for filename in filenames" (lines 271-295).
ScanFile ==
    /\ pc = "scan"
    /\ \E filename \in pending :
         LET b == LoopBody(file_records, summary, filename)
         IN  /\ pending' = pending \ {filename}
             /\ yielded' = Append(yielded, filename)
             /\ file_records' = b.records
             /\ summary' = b.summary
             /\ IF b.exc = None
                THEN UNCHANGED <<pc, exc, response, runs>>
                ELSE Finish("raised", b.exc, response)
    /\ UNCHANGED <<files, dirs, pkg, now, req, stack, unlinks, fs0,
                   output_file_path>>
    /\ UNCHANGED cancel_at

\* The walk is exhausted: scan_repo returns (file_records, summary), to its
\* caller or to summarize_repo_contents (line 236).
ScanReturn ==
    /\ pc = "scan"
    /\ pending = {}
    /\ stack = <<>>
    /\ UNCHANGED <<file_records, summary>>
    /\ IF req.op = "summary"
       THEN /\ pc' = "write"
            /\ UNCHANGED <<exc, response, runs>>
       ELSE Finish("returned", None, response)
    /\ UNCHANGED <<files, dirs, pkg, now, req, stack, pending, yielded,
                   unlinks, fs0, output_file_path>>
    /\ UNCHANGED cancel_at

\* A caller of walk_the_repo takes the next path.
WalkYield ==
    /\ pc = "walk"
    /\ \E filename \in pending :
         /\ pending' = pending \ {filename}
         /\ yielded' = Append(yielded, filename)
    /\ UNCHANGED <<files, dirs, pkg, now, req, pc, stack, file_records,
                   summary, exc, response, runs, unlinks, fs0,
                   output_file_path>>
    /\ UNCHANGED cancel_at

\* walk_the_repo is exhausted.
WalkReturn ==
    /\ pc = "walk"
    /\ pending = {}
    /\ stack = <<>>
    /\ UNCHANGED <<file_records, summary>>
    /\ Finish("returned", None, response)
    /\ UNCHANGED <<files, dirs, pkg, now, req, stack, pending, yielded,
                   unlinks, fs0, output_file_path>>
    /\ UNCHANGED cancel_at

\* ------------------------------------------------- requests and endpoint
\* A request may start when the process is idle; a later run repeats the
\* first request.
CanStart(r) ==
    /\ pc = "idle"
    /\ Len(runs) < MaxRuns
    /\ runs # <<>> => r = req

NewRun(r) ==
    /\ req' = r
    /\ fs0' = [files |-> files, dirs |-> dirs]
    /\ yielded' = <<>>
    /\ pending' = {}
    /\ file_records' = <<>>
    /\ summary' = EmptyDict
    /\ cancel_at' = -1

CallWalk ==
    \E r \in Requests :
      /\ r.op = "walk"
      /\ CanStart(r)
      /\ NewRun(r)
      /\ pc' = "walk"
      /\ stack' = <<Root>>
      /\ exc' = None
      /\ response' = EmptyDict
      /\ UNCHANGED <<files, dirs, pkg, now, runs, unlinks, output_file_path>>

CallScan ==
    \E r \in Requests :
      /\ r.op = "scan"
      /\ CanStart(r)
      /\ NewRun(r)
      /\ pc' = "begin"
      /\ stack' = <<>>
      /\ exc' = None
      /\ response' = EmptyDict
      /\ UNCHANGED <<files, dirs, pkg, now, runs, unlinks, output_file_path>>

\* strftime("%Y%m%d_%H%M%S") of the clock: the seconds are the clock's value.
Digit(n) == <<"0","1","2","3","4","5","6","7","8","9">>[n + 1]

Timestamp(t) ==
    <<"2","0","2","6","1","0","3","0","_","1","2","0","0">>
    \o <<Digit((t \div 10) % 10), Digit(t % 10)>>

\* generate_default_output_file(repo_root, "summary.txt"):
\* "{repo_name}_{timestamp}.summary.txt"
generate_default_output_file(t) ==
    nRepo \o <<"_">> \o Timestamp(t)
    \o <<".","s","u","m","m","a","r","y",".","t","x","t">>

\* validate_path: a missing path is created as a directory; a path that is
\* not a directory is refused (None).
validate_path(path, ds) ==
    IF ~(path \in ds \/ path \in DOMAIN files)
    THEN [ok |-> TRUE, dirs |-> ds \cup {path} \cup Ancestors(path)]
    ELSE [ok |-> path \in ds, dirs |-> ds]

ErrorResponse(msg) ==
    Construct(SummaryResponse("gcrs"),
              ("status" :> "error") @@ ("error" :> msg) @@
              ("repo_root" :> ".") @@ ("summary" :> None) @@
              ("files_scanned" :> None) @@ ("files_skipped" :> None)).obj

\* POST /scan/summary, lines 98-127: the root and the output directory are
\* validated (and created when missing), the output file is created empty.
CallSummary ==
    \E r \in Requests :
      /\ r.op = "summary"
      /\ CanStart(r)
      /\ NewRun(r)
      /\ stack' = <<>>
      /\ LET root == validate_path(Root, dirs)
             out  == validate_path(<<r.output_dir>>, root.dirs)
             output_file == IF r.output_file # <<>> THEN r.output_file
                            ELSE generate_default_output_file(now)
             path == <<r.output_dir, output_file>>
         IN  IF ~root.ok
             THEN /\ UNCHANGED <<files, dirs, output_file_path>>
                  /\ Finish("error", None,
                       ErrorResponse("The specified repository root directory does not exist or is not a directory"))
             ELSE IF ~out.ok
             THEN /\ dirs' = root.dirs
                  /\ UNCHANGED <<files, output_file_path>>
                  /\ Finish("error", None,
                       ErrorResponse("The specified output directory is not a directory"))
             ELSE /\ dirs' = out.dirs
                  /\ files' = IF path \in DOMAIN files \/ path \in out.dirs
                              THEN files
                              ELSE (path :> 0) @@ files
                  /\ output_file_path' = path
                  /\ pc' = "begin"
                  /\ exc' = None
                  /\ response' = EmptyDict
                  /\ UNCHANGED runs
      /\ UNCHANGED <<pkg, now, unlinks>>

\* Line 216: open(output_file_path, "w") creates the file or truncates it; the
\* file is empty from here until the buffered text is flushed.
SummaryOpen ==
    /\ pc = "write"
    /\ files' = SetItem(files, output_file_path, 0)
    /\ pc' = "dump"
    /\ UNCHANGED <<dirs, pkg, now, req, stack, pending, yielded, file_records,
                   summary, exc, response, runs, unlinks, fs0,
                   output_file_path, cancel_at>>

\* Lines 219-220 and 239-244: model_dump_json, f.write and the close of the
\* with block, then the success response.
SummaryWrite ==
    /\ pc = "dump"
    /\ files' = SetItem(files, output_file_path, JsonLen(summary))
    /\ UNCHANGED <<file_records, summary>>
    /\ Finish("returned", None,
         Construct(SummaryResponse(pkg),
                   ("status" :> "success") @@
                   ("files_scanned" :> summary["scanned_files"]) @@
                   ("files_skipped" :> summary["skipped_files"]) @@
                   ("repo_root" :> "/repo")).obj)
    /\ UNCHANGED <<dirs, pkg, now, req, stack, pending, yielded, unlinks,
                   fs0, output_file_path>>
    /\ UNCHANGED cancel_at

\* ------------------------------------------------------- the environment
\* Another process removes a file between the listing of its directory and
\* the moment the walk's caller reaches it.
Unlink ==
    /\ pc \in {"walk", "scan"}
    /\ unlinks < MaxUnlinks
    /\ \E f \in pending \cap DOMAIN files :
         files' = [p \in (DOMAIN files) \ {f} |-> files[p]]
    /\ unlinks' = unlinks + 1
    /\ UNCHANGED <<dirs, pkg, now, req, pc, stack, pending, yielded,
                   file_records, summary, exc, response, runs, fs0,
                   output_file_path>>
    /\ UNCHANGED cancel_at

\* The wall clock advances between two runs (it is read only by
\* generate_default_output_file).
Tick ==
    /\ pc = "idle"
    /\ runs # <<>>
    /\ req.op = "summary"
    /\ req.output_file = <<>>
    /\ Len(runs) < MaxRuns
    /\ now < MaxClock
    /\ now' = now + 1
    /\ UNCHANGED <<files, dirs, pkg, req, pc, stack, pending, yielded,
                   file_records, summary, exc, response, runs, unlinks, fs0,
                   output_file_path>>
    /\ UNCHANGED cancel_at

\* A cancel signal is raised while scan_repo runs.  Nothing in scan_repo
\* reads it: the loop of lines 271-295 has no check between files.
Cancel ==
    /\ pc = "scan"
    /\ cancel_at = -1
    /\ cancel_at' = Len(yielded)
    /\ UNCHANGED <<files, dirs, pkg, now, req, pc, stack, pending, yielded,
                   file_records, summary, exc, response, runs, unlinks, fs0,
                   output_file_path>>

Next ==
    \/ CallWalk
    \/ CallScan
    \/ CallSummary
    \/ ScanBegin
    \/ WalkDir
    \/ ScanFile
    \/ ScanReturn
    \/ WalkYield
    \/ WalkReturn
    \/ SummaryOpen
    \/ SummaryWrite
    \/ Unlink
    \/ Tick

Spec == Init /\ [][Next]_vars

\* The runs of Spec, with a cancel signal that may be raised during a scan.
NextCancel == Next \/ Cancel

SpecCancel == Init /\ [][NextCancel]_vars

\* ------------------------------------------------------------ the claims
SummaryMade == DOMAIN summary # {}

\* The count a histogram holds for a key (0 when the key has no bucket).
Bucket(h, k) == IF k \in DOMAIN h THEN h[k] ELSE 0

\* The histogram of a dimension, as the summary's declared field.
Histogram(field) == IF HasAttr(summary, field) THEN summary[field] ELSE EmptyDict

\* The records scan_repo holds whose value in a dimension is k.
RecordsWith(dim, k) == {i \in DOMAIN file_records : file_records[i][dim] = k}

\* A path that passes through a directory whose name is in SKIP_DIRS.
ThroughSkipDir(p) == \E i \in 1 .. (Len(p) - 1) : Str(p[i]) \in SKIP_DIRS

LastRun == runs[Len(runs)]

\* C1: in every state scan_repo reaches, total_files = scanned_files +
\* skipped_files.
C1_TotalIsScannedPlusSkipped ==
    SummaryMade =>
      summary["total_files"] = summary["scanned_files"] + summary["skipped_files"]

\* C2: for each of the language, category and extension histograms and each
\* key k, the bucket of k counts the processed files whose value is k.
C2_BucketsCountFiles ==
    SummaryMade =>
      \A d \in { <<"language", "files_by_language">>,
                 <<"category", "files_by_category">>,
                 <<"extension", "files_by_extension">> } :
        \A i \in DOMAIN file_records :
          Truthy(file_records[i][d[1]]) =>
            Bucket(Histogram(d[2]), file_records[i][d[1]])
              = Cardinality(RecordsWith(d[1], file_records[i][d[1]]))

\* C3: files_with_extension + files_without_extension = scanned_files.
C3_ExtensionCountersPartition ==
    SummaryMade =>
      /\ HasAttr(summary, "files_with_extension")
      /\ HasAttr(summary, "files_without_extension")
      /\ summary["files_with_extension"] + summary["files_without_extension"]
           = summary["scanned_files"]

\* C4: in every state scan_repo reaches, every histogram of the summary sums
\* to at most scanned_files and holds no bucket below 1.
\* The formula holds in every reachable state, but only because no state has
\* a bucket (HistogramsStayEmpty): the updates of lines 290-295 raise before
\* they create one, so the bound is never put to the test.
C4_HistogramsBounded ==
    \A a \in DictFields \cap DOMAIN summary :
      /\ SumOver(DOMAIN summary[a], summary[a]) <= summary["scanned_files"]
      /\ \A k \in DOMAIN summary[a] : summary[a][k] >= 1

\* No histogram of the summary ever holds a bucket.
HistogramsStayEmpty ==
    \A a \in DictFields \cap DOMAIN summary : summary[a] = EmptyDict

\* C5: a stat failure does not end the scan: the path gives no record, it is
\* counted in skipped_files, and the scan goes on.
C5_StatFailureIsSkipped ==
    SummaryMade =>
      /\ exc # "FileNotFoundError"
      /\ summary["skipped_files"] = Len(yielded) - Len(file_records)

\* C6: a scan of a root that does not exist ends in an error (an error
\* response or an exception), returns no records and no summary, reports no
\* success, and leaves the file system as it was.
C6_MissingRootIsFatal ==
    (pc = "idle" /\ runs # <<>> /\ req.op \in {"scan", "summary"}
       /\ Root \notin fs0.dirs) =>
      /\ LastRun.kind \in {"error", "raised"}
      /\ files = fs0.files
      /\ dirs = fs0.dirs

\* C7: a file below a directory named in SKIP_DIRS is never yielded by
\* walk_the_repo, has no record, and is not counted by the summary.
C7_DeniedFilesNeverSeen ==
    /\ \A i \in DOMAIN yielded : ~ThroughSkipDir(yielded[i])
    /\ \A i \in DOMAIN file_records :
         \A f \in DOMAIN files \cup DOMAIN fs0.files :
           ThroughSkipDir(f) => file_records[i]["relative_dir"] # AsPosix(f)
    /\ SummaryMade => summary["scanned_files"] <= Len(yielded)

\* C7 witness: a walk that yielded a file has ended on a tree that holds a
\* file two levels below a denylisted directory, or one directly in it.
C7_Witness ==
    /\ pc = "idle"
    /\ runs # <<>>
    /\ LastRun.kind = "returned"
    /\ Len(yielded) >= 1
    /\ \E f \in DOMAIN files : ThroughSkipDir(f) /\ Len(f) >= 2

\* C8: two successive runs on the same root, with nothing else touching the
\* tree, give two summaries with the same histograms and totals.
C8_TwoRunsSameSummary ==
    (Len(runs) >= 2 /\ unlinks = 0 /\ req.op \in {"scan", "summary"}
       /\ Root \in fs0.dirs) =>
      /\ runs[1].kind = "returned"
      /\ runs[2].kind = "returned"
      /\ DOMAIN runs[1].summary # {}
      /\ runs[1].summary = runs[2].summary

\* C9: a record's dependency_kind is the DEPENDENCY_KIND_BY_NAME entry of its
\* exact name, and absent for every other name.
C9_DependencyKindByName ==
    \A i \in DOMAIN file_records :
      file_records[i]["dependency_kind"]
        = DictGet(DEPENDENCY_KIND_BY_NAME, file_records[i]["name"])

\* C10: a record whose lowercased extension is a language key without a
\* category override has that language, category "code", and is_binary true
\* exactly for a binary extension; app.py is python, code, not binary.
C10_ClassificationByName ==
    \A i \in DOMAIN yielded :
      \A j \in DOMAIN file_records :
        file_records[j]["relative_dir"] = AsPosix(yielded[i]) =>
          LET r == file_records[j]
              ext == Str(Lower(Suffix(BaseName(yielded[i]))))
          IN  /\ (ext \in DOMAIN LANGUAGE_BY_EXT
                    /\ ext \notin DOMAIN CATEGORY_EXPLICIT
                    /\ ext \notin DATA_EXTENSIONS /\ ext # ".svg") =>
                   /\ r["language"] = LANGUAGE_BY_EXT[ext]
                   /\ r["category"] = "code"
                   /\ r["is_binary"] = (ext \in BINARY_EXTENSIONS)
              /\ r["name"] = "app.py" =>
                   /\ r["language"] = "python"
                   /\ r["category"] = "code"
                   /\ r["is_binary"] = FALSE

\* C10 witness: src/app.py has been classified after another file.
C10_Witness ==
    /\ Len(file_records) = 2
    /\ file_records[2]["name"] = "app.py"
    /\ file_records[2]["relative_dir"] = "src/app.py"

\* C11: the scan of the scenario tree gives scanned_files = 3, skipped_files
\* = 0, total_files = 3, three category buckets of count 1 (code and
\* documentation among them), the language histogram {python: 1} and the
\* binary histogram {.png: 1}.
C11_ScenarioSummary ==
    (pc = "idle" /\ runs # <<>> /\ req.op = "scan" /\ unlinks = 0
       /\ pkg = "gcrs" /\ DOMAIN fs0.files = ScenarioFiles) =>
      /\ LastRun.kind = "returned"
      /\ SummaryMade
      /\ summary["scanned_files"] = 3
      /\ summary["skipped_files"] = 0
      /\ summary["total_files"] = 3
      /\ Cardinality(DOMAIN Histogram("files_by_category")) = 3
      /\ \A k \in DOMAIN Histogram("files_by_category") :
           Histogram("files_by_category")[k] = 1
      /\ {"code", "documentation"} \subseteq DOMAIN Histogram("files_by_category")
      /\ Histogram("files_by_language") = ("python" :> 1)
      /\ Histogram("binary_files_by_extension") = (".png" :> 1)

\* C12: once a cancel signal is raised while scan_repo runs, the scan stops
\* before the next file: at most the file in progress is still classified, so
\* at most one more path is taken from the walk and at most one more record is
\* appended.
C12_CancelStopsScan ==
    cancel_at >= 0 =>
      /\ Len(yielded) <= cancel_at + 1
      /\ Len(file_records) <= cancel_at + 1

\* C13: whenever the output file of the summary operation exists, it holds the
\* complete JSON text of the RepositorySummary of a run that returned; a reader
\* never finds it empty or partly written.
C13_ReaderSeesWholeSummary ==
    (req.op = "summary" /\ output_file_path \in DOMAIN files) =>
      \E i \in DOMAIN runs :
        /\ runs[i].kind = "returned"
        /\ files[output_file_path] = JsonLen(runs[i].summary)

\* C14: every FileRecord's relative_dir is the POSIX path of the directory
\* that holds the file, relative to the root and without the file name ("."
\* for a file directly in the root), and its name is the file name.
C14_RelativeDirIsContainingDir ==
    \A j \in DOMAIN file_records :
      /\ file_records[j]["relative_dir"] = AsPosix(Parent(yielded[j]))
      /\ file_records[j]["name"] = Str(BaseName(yielded[j]))

\* C15: within one walk no path is yielded twice, no two FileRecords have the
\* same (relative_dir, name) pair, and the summary counts no file twice.
C15_NoPathTwice ==
    /\ \A i, j \in DOMAIN yielded : i # j => yielded[i] # yielded[j]
    /\ \A i, j \in DOMAIN file_records :
         i # j =>
           <<file_records[i]["relative_dir"], file_records[i]["name"]>>
             # <<file_records[j]["relative_dir"], file_records[j]["name"]>>
    /\ SummaryMade =>
         summary["scanned_files"] <= Cardinality({yielded[i] : i \in DOMAIN yielded})

\* A scan that returned two records, from two paths of the walk.
C15_Witness ==
    /\ pc = "idle" /\ runs # <<>> /\ req.op = "scan"
    /\ LastRun.kind = "returned"
    /\ Len(yielded) = 2
    /\ Len(file_records) = 2

\* C16: a record whose extension is a key of the language table and of the
\* explicit category entries has the explicit category, not "code", and the
\* language of the language table, whatever was scanned before it; README.md
\* is documentation and markdown.
C16_OverrideAfterDerive ==
    \A j \in DOMAIN file_records :
      LET r == file_records[j]
          ext == Str(Lower(Suffix(BaseName(yielded[j]))))
      IN  /\ (ext \in DOMAIN LANGUAGE_BY_EXT \cap DOMAIN CATEGORY_EXPLICIT) =>
               /\ r["category"] = CATEGORY_EXPLICIT[ext]
               /\ r["category"] # "code"
               /\ r["language"] = LANGUAGE_BY_EXT[ext]
          /\ r["name"] = "README.md" =>
               /\ r["category"] = "documentation"
               /\ r["language"] = "markdown"

\* C16 witness: README.md has been classified after another file.
C16_Witness ==
    /\ Len(file_records) = 2
    /\ file_records[2]["name"] = "README.md"
    /\ file_records[2]["extension"] \in DOMAIN LANGUAGE_BY_EXT \cap DOMAIN CATEGORY_EXPLICIT

\* C17: at every iteration boundary of scan_repo, and in the result it
\* returns, the number of FileRecords equals scanned_files; the success
\* response of the summary operation reports that number.
C17_OneCountPerRecord ==
    /\ SummaryMade => Len(file_records) = summary["scanned_files"]
    /\ \A i \in DOMAIN runs :
         (runs[i].kind = "returned" /\ DOMAIN runs[i].summary # {}) =>
           /\ Len(runs[i].records) = runs[i].summary["scanned_files"]
           /\ DOMAIN runs[i].response # {} =>
                runs[i].response["files_scanned"] = Len(runs[i].records)

\* C17 witness: a summary operation returned after two files were classified.
C17_Witness ==
    /\ pc = "idle" /\ runs # <<>> /\ req.op = "summary"
    /\ LastRun.kind = "returned"
    /\ Len(LastRun.records) = 2
    /\ LastRun.summary["scanned_files"] = 2
    /\ LastRun.response["files_scanned"] = 2

=============================================================================
